---- MODULE Spec2Model ----
(***************************************************************************)
(* auto_backup_s3: DbBackup.schedule_backup mirrors each enabled backup    *)
(* record's local folder into "<s3_folder_name>/" of an S3 bucket.         *)
(* Model of src/auto_backup_s3/models/db_backup.py.                        *)
(*                                                                         *)
(* Strings are sequences of one-character strings, so that strip(),        *)
(* split('/'), the f"{folder}/{name}" key and the Prefix match of          *)
(* list_objects_v2 are computed as the code computes them.                 *)
(***************************************************************************)
EXTENDS Integers, Sequences, FiniteSets, TLC

\* ------------------------------------------------------------ bounds
\* Keys returned by one list_objects_v2 call (the service's page size,
\* scaled down; the code passes no MaxKeys and follows no continuation).
PageSize == 2
\* Runs of schedule_backup in one behaviour.
MaxRuns == 2

\* ------------------------------------------------------------ strings
SLASH == "/"
SPACE == " "

\* Characters in code-point order (' ' < '/' < letters).
Alphabet == <<" ", "/", "a", "b", "c", "d", "p", "q", "s">>

Ord(ch) == CHOOSE i \in 1..Len(Alphabet) : Alphabet[i] = ch

\* s < t in the byte order S3 lists keys in.
RECURSIVE StrLess(_, _)
StrLess(s, t) ==
    IF t = <<>> THEN FALSE
    ELSE IF s = <<>> THEN TRUE
    ELSE IF Head(s) = Head(t) THEN StrLess(Tail(s), Tail(t))
    ELSE Ord(Head(s)) < Ord(Head(t))

\* str.startswith
StartsWith(s, pre) ==
    /\ Len(pre) <= Len(s)
    /\ SubSeq(s, 1, Len(pre)) = pre

\* str.strip(): leading and trailing whitespace removed.
RECURSIVE LStrip(_)
LStrip(s) ==
    IF s # <<>> /\ Head(s) = SPACE THEN LStrip(Tail(s)) ELSE s

RECURSIVE RStrip(_)
RStrip(s) ==
    IF s # <<>> /\ s[Len(s)] = SPACE THEN RStrip(SubSeq(s, 1, Len(s) - 1)) ELSE s

Strip(s) == RStrip(LStrip(s))

\* key.split('/')[-1]: what follows the last '/', the whole key without one.
RECURSIVE LastSegment(_)
LastSegment(s) ==
    IF s = <<>> THEN <<>>
    ELSE IF s[Len(s)] = SLASH THEN <<>>
    ELSE LastSegment(SubSeq(s, 1, Len(s) - 1)) \o <<s[Len(s)]>>

\* A slip: the key without the folder name.
S3Key_bare(s3_folder, file_name) == file_name

\* f"{s3_folder}/{file_name}"
S3Key(s3_folder, file_name) == s3_folder \o <<SLASH>> \o file_name

\* f"{folder_prefix}/"
ListPrefix(folder_prefix) == folder_prefix \o <<SLASH>>

\* ------------------------------------------------------------ exceptions
\* The classes imported at the top of the file, and the ones the calls raise
\* that the file does not import. NoCredentialsError is a BotoCoreError;
\* ClientError, S3UploadFailedError and UserError are plain Exceptions.
IsInstance(exc, cls) ==
    \/ cls = "Exception"
    \/ exc = cls
    \/ (exc = "NoCredentialsError" /\ cls = "BotoCoreError")
    \/ (exc = "PermissionError" /\ cls = "OSError")
    \/ (exc = "FileNotFoundError" /\ cls = "OSError")

OK == "ok"

\* str(err): the text of an error, not its class.
Str(err) ==
    CASE err = "BotoCoreError" -> "An unspecified error occurred"
      [] err = "ClientError"   -> "An error occurred (AccessDenied) when calling the ListObjectsV2 operation: Access Denied"
      [] OTHER                 -> "Expected singleton"

\* os.listdir(folder_path): the folder is there, missing, or not readable.
ListdirOutcomes == {OK, "FileNotFoundError", "PermissionError"}

\* boto3.client(...): built, or refused (a malformed region is a BotoCoreError).
ClientOutcomes == {OK, "BotoCoreError"}

\* s3_client.list_objects_v2: a service error (auth, no such bucket) is a
\* ClientError, a connection error a BotoCoreError.
ListOutcomes == {OK, "ClientError", "BotoCoreError"}

\* s3_client.upload_file by failure reason: a connection error is a
\* BotoCoreError (missing credentials too: NoCredentialsError is one), and a
\* service error (auth rejected, bucket not found) reaches the caller as
\* S3UploadFailedError, which upload_file raises in place of the ClientError.
UploadFileRaises(reason) ==
    CASE reason = "network"        -> "BotoCoreError"
      [] reason = "auth"           -> "S3UploadFailedError"
      [] reason = "no_bucket"      -> "S3UploadFailedError"
      [] OTHER                     -> OK

UploadReasons == {OK, "network", "auth", "no_bucket"}

\* s3_client.delete_object by failure reason: a service error is a
\* ClientError, a connection error a BotoCoreError.
DeleteObjectRaises(reason) ==
    CASE reason = "service" -> "ClientError"
      [] reason = "network" -> "BotoCoreError"
      [] OTHER              -> OK

DeleteReasons == {OK, "service", "network"}

\* ------------------------------------------------------------ records
\* self.search([]): the backup records, in storage order.
conf_ids == <<1, 2>>

Recs == {conf_ids[i] : i \in 1..Len(conf_ids)}

\* rec.s3_folder_name as stored (untrimmed).
FolderNameOf(r) == IF r = 1 THEN <<" ", "p", " ">> ELSE <<"q">>

\* The file names a record's folder may hold, and its subdirectories.
FileNames(r) == IF r = 1 THEN {<<"a">>, <<"b">>, <<"c">>} ELSE {<<"a">>}

SubDirs(r) == IF r = 1 THEN {<<"d">>} ELSE {}

\* The object keys the bucket may hold before the first run: flat keys under
\* the first record's prefix and a key nested one level deeper. The second
\* record's keys appear as its iterations upload them.
KeyUniverse ==
    { <<"p", "/", "a">>, <<"p", "/", "b">>, <<"p", "/", "c">>,
      <<"p", "/", "s", "/", "c">> }

\* ------------------------------------------------------------ remote store
\* The elements of a finite set of strings in ascending key order.
RECURSIVE SortKeys(_)
SortKeys(S) ==
    IF S = {} THEN <<>>
    ELSE LET m == CHOOSE x \in S : \A y \in S \ {x} : StrLess(x, y)
         IN  <<m>> \o SortKeys(S \ {m})

\* Every key of the bucket that starts with the prefix.
KeysUnder(objects, prefix) == {k \in objects : StartsWith(k, prefix)}

\* list_objects_v2(Bucket, Prefix): one page, the first PageSize matching
\* keys in key order; 'Contents' is absent when nothing matches.
ListObjectsV2(objects, prefix) ==
    LET all  == SortKeys(KeysUnder(objects, prefix))
        page == SubSeq(all, 1, IF Len(all) < PageSize THEN Len(all) ELSE PageSize)
    IN  IF all = <<>>
        THEN [KeyCount |-> 0, IsTruncated |-> FALSE]
        ELSE [KeyCount |-> Len(page), IsTruncated |-> Len(all) > PageSize,
              Contents |-> [i \in 1..Len(page) |-> [Key |-> page[i]]]]

\* list_s3_objects: response.get('Contents', []) of a single call.
list_s3_objects(objects, folder_prefix) ==
    LET response == ListObjectsV2(objects, ListPrefix(folder_prefix))
    IN  IF "Contents" \in DOMAIN response THEN response.Contents ELSE <<>>

\* {obj['Key'].split('/')[-1] for obj in s3_objects}
S3Files(objs) == {LastSegment(objs[i].Key) : i \in 1..Len(objs)}

\* {os.path.basename(f) for f in os.listdir(folder_path) if os.path.isfile(...)}
LocalFiles(files, dirs) == {f \in files \cup dirs : f \in files}

\* A slip: every local file is uploaded, listed remotely or not.
FilesToUpload_all(local, remote) == local

FilesToUpload(local, remote) == local \ remote

FilesToDelete(local, remote) == remote \ local

\* ------------------------------------------------------------ state
VARIABLES
    conf,             \* record id -> its configuration fields
    localDir,         \* record id -> the regular files of rec.folder
    s3,               \* the keys of the objects in the bucket
    pc,               \* where schedule_backup stands
    idx,              \* position in conf_ids of the record of the for loop
    cur,              \* the record whose iteration ran last (0: none yet)
    s3_folder,        \* the locals of the loop body, as the iteration of
    local_files,      \*   cur assigned them
    s3_objects,
    s3_files,
    files_to_upload,
    files_to_delete,
    up_iter,          \* what the upload loop has still to visit
    del_iter,         \* what the delete loop has still to visit
    status,           \* record id -> how its iteration ended in this run
    trace,            \* the calls of the current iteration, in order
    log,              \* the _logger.error calls of the current iteration
    runOK,            \* no scan and no remote call of this run has failed
    touched,          \* this run has attempted an upload or a delete
    failed,           \* the uploads and deletes of this run that failed
    runs,             \* number of runs started
    created,          \* the inherited schedule_backup wrote a file in this run
    prev,             \* how the previous run ended
    cycleS3,          \* the bucket when the current iteration began
    modified,         \* <<record id, name>>: local files rewritten in place
    fresh,            \* the keys whose object holds a rewritten file's content
    probe,            \* the last call of action_test_s3_connection
    other             \* a second run of schedule_backup, overlapping this one

vars == <<conf, localDir, s3, pc, idx, cur, s3_folder, local_files, s3_objects,
          s3_files, files_to_upload, files_to_delete, up_iter, del_iter,
          status, trace, log, runOK, touched, failed, runs, created, prev,
          cycleS3, modified, fresh, probe, other>>

envVars == <<conf, localDir, s3>>

localVars == <<cur, s3_folder, local_files, s3_objects, s3_files,
               files_to_upload, files_to_delete>>

runVars == <<runs, created, prev>>

sumVars == <<runOK, touched, failed>>

\* What no step of this run of schedule_backup writes.
extVars == <<modified, probe, other>>

\* What the run of schedule_backup keeps for itself.
mainVars == <<pc, idx, localVars, up_iter, del_iter, status, trace, log,
              sumVars, runVars, cycleS3>>

\* The record of the current loop iteration.
rec == conf_ids[idx]

Conf(r, write) ==
    [s3_write |-> write, s3_folder_name |-> FolderNameOf(r)]

\* action_test_s3_connection has not been called.
NotCalled ==
    [self |-> {}, calls |-> <<>>, raised |-> "none", returned |-> FALSE,
     title |-> "", message |-> "", type |-> ""]

\* The second run has not been started.
NotStarted ==
    [pc |-> "idle", idx |-> 1, s3_folder |-> <<>>, local_files |-> {},
     up_iter |-> {}, del_iter |-> {}, created |-> FALSE, ok |-> TRUE,
     overlap |-> FALSE]

\* upload_file(file_path, bucket, s3_key): the object at s3_key gets the
\* content the local file has now.
Stored(held, r, file_name, s3_key) ==
    IF <<r, file_name>> \in modified THEN held \cup {s3_key}
                                     ELSE held \ {s3_key}

\* A call (listdir, client, list, upload, delete) and how it ended: "ok", or
\* what it raised / why it failed.
Call(r, op, key, res) == [rec |-> r, op |-> op, key |-> key, res |-> res]

\* A _logger.error call.
Logged(r, what, name) == [rec |-> r, what |-> what, name |-> name]

\* The run returned and nothing in it failed.
RunClean == pc = "returned" /\ runOK

Init ==
    /\ conf \in {[r \in Recs |-> Conf(r, w[r])] : w \in [Recs -> BOOLEAN]}
    /\ localDir \in {d \in [Recs -> SUBSET (FileNames(1) \cup FileNames(2))] :
                        /\ d[1] \subseteq FileNames(1)
                        /\ d[2] = FileNames(2)}
    /\ s3 \in SUBSET KeyUniverse
    /\ pc = "idle"
    /\ idx = 1
    /\ cur = 0
    /\ s3_folder = <<>>
    /\ local_files = {}
    /\ s3_objects = <<>>
    /\ s3_files = {}
    /\ files_to_upload = {}
    /\ files_to_delete = {}
    /\ up_iter = {}
    /\ del_iter = {}
    /\ status = [r \in Recs |-> "pending"]
    /\ trace = <<>>
    /\ log = {}
    /\ runOK = TRUE
    /\ touched = FALSE
    /\ failed = {}
    /\ runs = 0
    /\ created = FALSE
    /\ prev = [ran |-> FALSE, clean |-> FALSE, failed |-> {}]
    /\ cycleS3 = {}
    /\ modified = {}
    /\ fresh = {}
    /\ probe = NotCalled
    /\ other = NotStarted

\* ------------------------------------------------------------ schedule_backup
\* super().schedule_backup(): the inherited job writes at most one new backup
\* file into a record's folder.
SuperScheduleBackup ==
    \/ /\ created' = FALSE
       /\ localDir' = localDir
    \/ \E r \in Recs : \E n \in FileNames(r) \ localDir[r] :
          /\ created' = TRUE
          /\ localDir' = [localDir EXCEPT ![r] = @ \cup {n}]

\* The scheduler calls schedule_backup: lines 100-104.
StartRun ==
    /\ pc \in {"idle", "returned", "raised"}
    /\ runs < MaxRuns
    /\ runs' = runs + 1
    /\ prev' = [ran |-> runs > 0, clean |-> RunClean, failed |-> failed]
    /\ SuperScheduleBackup
    /\ pc' = "loop"
    /\ idx' = 1
    /\ cur' = 0
    /\ s3_folder' = <<>>
    /\ local_files' = {}
    /\ s3_objects' = <<>>
    /\ s3_files' = {}
    /\ files_to_upload' = {}
    /\ files_to_delete' = {}
    /\ up_iter' = {}
    /\ del_iter' = {}
    /\ status' = [r \in Recs |-> "pending"]
    /\ trace' = <<>>
    /\ log' = {}
    /\ runOK' = TRUE
    /\ touched' = FALSE
    /\ failed' = {}
    /\ UNCHANGED <<conf, s3, cycleS3, extVars, fresh>>

\* A slip: the loop body without its guard.
S3WriteEnabled_always(r) == TRUE

\* Line 107: rec.s3_write.
S3WriteEnabled(r) == conf[r].s3_write

\* The for loop is exhausted: schedule_backup returns.
Return ==
    /\ pc = "loop"
    /\ idx > Len(conf_ids)
    /\ pc' = "returned"
    /\ UNCHANGED <<envVars, idx, localVars, up_iter, del_iter, status, trace,
                   log, sumVars, runVars, cycleS3, extVars, fresh>>

\* Lines 107-108: if not rec.s3_write: continue.
SkipDisabled ==
    /\ pc = "loop"
    /\ idx <= Len(conf_ids)
    /\ ~S3WriteEnabled(rec)
    /\ status' = [status EXCEPT ![rec] = "skipped"]
    /\ idx' = idx + 1
    /\ UNCHANGED <<envVars, pc, localVars, up_iter, del_iter, trace, log,
                   sumVars, runVars, cycleS3, extVars, fresh>>

\* Lines 110-111: folder_path and the trimmed s3_folder. The other locals
\* still hold the previous iteration's values, which no line reads before it
\* assigns them again: they are cleared here.
BeginCycle ==
    /\ pc = "loop"
    /\ idx <= Len(conf_ids)
    /\ S3WriteEnabled(rec)
    /\ cur' = rec
    /\ s3_folder' = Strip(conf[rec].s3_folder_name)
    /\ local_files' = {}
    /\ s3_objects' = <<>>
    /\ s3_files' = {}
    /\ files_to_upload' = {}
    /\ files_to_delete' = {}
    /\ up_iter' = {}
    /\ del_iter' = {}
    /\ status' = [status EXCEPT ![rec] = "scan"]
    /\ cycleS3' = s3
    /\ trace' = <<>>
    /\ log' = {}
    /\ pc' = "scan"
    /\ UNCHANGED <<envVars, idx, sumVars, runVars, extVars, fresh>>

\* A slip: the scan without its second handler (except Exception).
ScanCaught_fnf(exc) == IsInstance(exc, "FileNotFoundError")

\* Lines 116-121: both handlers of the scan log and continue.
ScanCaught(exc) ==
    IsInstance(exc, "FileNotFoundError") \/ IsInstance(exc, "Exception")

\* Lines 113-115, the scan succeeds.
ScanOk ==
    /\ pc = "scan"
    /\ local_files' = LocalFiles(localDir[rec], SubDirs(rec))
    /\ trace' = trace \o <<Call(rec, "listdir", <<>>, OK)>>
    /\ status' = [status EXCEPT ![rec] = "list"]
    /\ pc' = "list"
    /\ UNCHANGED <<envVars, idx, cur, s3_folder, s3_objects, s3_files,
                   files_to_upload, files_to_delete, up_iter, del_iter, log,
                   sumVars, runVars, cycleS3, extVars, fresh>>

\* Lines 113-121, os.listdir raises.
ScanFails ==
    /\ pc = "scan"
    /\ \E exc \in ListdirOutcomes \ {OK} :
          /\ trace' = trace \o <<Call(rec, "listdir", <<>>, exc)>>
          /\ IF ScanCaught(exc)
             THEN /\ log' = log \cup {Logged(rec, "scan", <<>>)}
                  /\ status' = [status EXCEPT ![rec] = "LocalScanFailed"]
                  /\ idx' = idx + 1
                  /\ pc' = "loop"
             ELSE /\ log' = log
                  /\ status' = [status EXCEPT ![rec] = "raised"]
                  /\ idx' = idx
                  /\ pc' = "raised"
    /\ runOK' = FALSE
    /\ UNCHANGED <<envVars, localVars, up_iter, del_iter, touched, failed,
                   runVars, cycleS3, extVars, fresh>>

\* A slip: the listing guarded like the delete (except ClientError).
ListCaught_client(exc) == IsInstance(exc, "ClientError")

\* Line 131: except Exception around get_s3_client and list_s3_objects.
ListCaught(exc) == IsInstance(exc, "Exception")

\* Lines 124-133, get_s3_client or list_s3_objects raises: log and continue.
ListFails ==
    /\ pc = "list"
    /\ \E c \in ClientOutcomes, l \in ListOutcomes \ {OK} :
          LET client == Call(rec, "client", <<>>, c)
              list   == Call(rec, "list", ListPrefix(s3_folder), l)
              exc    == IF c # OK THEN c ELSE l
          IN  /\ trace' = IF c # OK THEN trace \o <<client>>
                          ELSE trace \o <<client, list>>
              /\ IF ListCaught(exc)
                 THEN /\ log' = log \cup {Logged(rec, "list", <<>>)}
                      /\ status' = [status EXCEPT ![rec] = "RemoteListFailed"]
                      /\ idx' = idx + 1
                      /\ pc' = "loop"
                 ELSE /\ log' = log
                      /\ status' = [status EXCEPT ![rec] = "raised"]
                      /\ idx' = idx
                      /\ pc' = "raised"
    /\ runOK' = FALSE
    /\ UNCHANGED <<envVars, localVars, up_iter, del_iter, touched, failed,
                   runVars, cycleS3, extVars, fresh>>

\* Lines 124-137: the client, the listing, and the two differences.
ListOk ==
    /\ pc = "list"
    /\ LET objs   == list_s3_objects(s3, s3_folder)
           remote == S3Files(objs)
       IN  /\ s3_objects' = objs
           /\ s3_files' = remote
           /\ files_to_upload' = FilesToUpload(local_files, remote)
           /\ files_to_delete' = FilesToDelete(local_files, remote)
           /\ up_iter' = FilesToUpload(local_files, remote)
    /\ trace' = trace \o <<Call(rec, "client", <<>>, OK),
                           Call(rec, "list", ListPrefix(s3_folder), OK)>>
    /\ status' = [status EXCEPT ![rec] = "upload"]
    /\ pc' = "upload"
    /\ UNCHANGED <<envVars, idx, cur, s3_folder, local_files, del_iter, log,
                   sumVars, runVars, cycleS3, extVars, fresh>>

\* upload_to_s3, lines 36-49: what leaves it when boto3 raises exc. Only
\* BotoCoreError and NoCredentialsError become UserError.
upload_to_s3(exc) ==
    IF exc = OK THEN OK
    ELSE IF IsInstance(exc, "BotoCoreError") \/ IsInstance(exc, "NoCredentialsError")
    THEN "UserError"
    ELSE exc

\* Line 153: except UserError.
UploadCaught(exc) == IsInstance(exc, "UserError")

\* Lines 140-154, one iteration of the upload loop, in set order.
Upload ==
    /\ pc = "upload"
    /\ \E file_name \in up_iter, reason \in UploadReasons :
          LET s3_key == S3Key(s3_folder, file_name)
              exc    == upload_to_s3(UploadFileRaises(reason))
          IN  /\ trace' = trace \o <<Call(rec, "upload", s3_key, reason)>>
              /\ s3' = IF exc = OK THEN s3 \cup {s3_key} ELSE s3
              /\ fresh' = IF exc = OK THEN Stored(fresh, rec, file_name, s3_key)
                                      ELSE fresh
              /\ runOK' = (runOK /\ exc = OK)
              /\ failed' = IF exc = OK THEN failed
                            ELSE failed \cup {<<rec, "upload", file_name>>}
              /\ IF exc = OK
                 THEN /\ log' = log
                      /\ up_iter' = up_iter \ {file_name}
                      /\ UNCHANGED <<pc, status>>
                 ELSE IF UploadCaught(exc)
                 THEN /\ log' = log \cup {Logged(rec, "upload", file_name)}
                      /\ up_iter' = up_iter \ {file_name}
                      /\ UNCHANGED <<pc, status>>
                 ELSE /\ log' = log
                      /\ up_iter' = up_iter
                      /\ status' = [status EXCEPT ![rec] = "raised"]
                      /\ pc' = "raised"
    /\ touched' = TRUE
    /\ UNCHANGED <<conf, localDir, idx, localVars, del_iter, runVars, cycleS3,
                   extVars>>

\* Line 140: the upload loop is exhausted; line 157 starts the delete loop.
UploadsDone_early ==
    /\ pc = "upload"
    /\ del_iter' = files_to_delete
    /\ status' = [status EXCEPT ![rec] = "delete"]
    /\ pc' = "delete"
    /\ UNCHANGED <<envVars, idx, localVars, up_iter, trace, log, sumVars,
                   runVars, cycleS3, extVars, fresh>>

UploadsDone ==
    /\ pc = "upload"
    /\ up_iter = {}
    /\ del_iter' = files_to_delete
    /\ status' = [status EXCEPT ![rec] = "delete"]
    /\ pc' = "delete"
    /\ UNCHANGED <<envVars, idx, localVars, up_iter, trace, log, sumVars,
                   runVars, cycleS3, extVars, fresh>>

\* Line 162: except ClientError.
DeleteCaught(exc) == IsInstance(exc, "ClientError")

\* Lines 157-163, one iteration of the delete loop, in set order.
Delete ==
    /\ pc = "delete"
    /\ \E file_name \in del_iter, reason \in DeleteReasons :
          LET s3_key == S3Key(s3_folder, file_name)
              exc    == DeleteObjectRaises(reason)
          IN  /\ trace' = trace \o <<Call(rec, "delete", s3_key, reason)>>
              /\ s3' = IF exc = OK THEN s3 \ {s3_key} ELSE s3
              /\ fresh' = IF exc = OK THEN fresh \ {s3_key} ELSE fresh
              /\ runOK' = (runOK /\ exc = OK)
              /\ failed' = IF exc = OK THEN failed
                            ELSE failed \cup {<<rec, "delete", file_name>>}
              /\ IF exc = OK
                 THEN /\ log' = log
                      /\ del_iter' = del_iter \ {file_name}
                      /\ UNCHANGED <<pc, status>>
                 ELSE IF DeleteCaught(exc)
                 THEN /\ log' = log \cup {Logged(rec, "delete", file_name)}
                      /\ del_iter' = del_iter \ {file_name}
                      /\ UNCHANGED <<pc, status>>
                 ELSE /\ log' = log
                      /\ del_iter' = del_iter
                      /\ status' = [status EXCEPT ![rec] = "raised"]
                      /\ pc' = "raised"
    /\ touched' = TRUE
    /\ UNCHANGED <<conf, localDir, idx, localVars, up_iter, runVars, cycleS3,
                   extVars>>

\* Line 157: the delete loop is exhausted; the for loop takes the next record.
DeletesDone ==
    /\ pc = "delete"
    /\ del_iter = {}
    /\ status' = [status EXCEPT ![rec] = "done"]
    /\ idx' = idx + 1
    /\ pc' = "loop"
    /\ UNCHANGED <<envVars, localVars, up_iter, del_iter, trace, log,
                   sumVars, runVars, cycleS3, extVars, fresh>>

Next ==
    \/ StartRun
    \/ Return
    \/ SkipDisabled
    \/ BeginCycle
    \/ ScanOk
    \/ ScanFails
    \/ ListOk
    \/ ListFails
    \/ Upload
    \/ UploadsDone
    \/ Delete
    \/ DeletesDone

Spec == Init /\ [][Next]_vars

\* ------------------------------------------------------------ overlapping run
\* The scheduler starts schedule_backup a second time while the first run is
\* inside an iteration. The second run executes the same lines on locals of its own;
\* it shares the records, the folders and the bucket with the first.
OtherStartRun ==
    /\ other.pc = "idle"
    /\ pc \in {"scan", "list", "upload", "delete"}
    /\ \E new \in {{}} \cup {{<<r, n>>} : r \in Recs, n \in FileNames(1) \cup FileNames(2)} :
          /\ \A f \in new : f[2] \in FileNames(f[1]) \ localDir[f[1]]
          /\ localDir' = [r \in Recs |->
                            localDir[r] \cup {f[2] : f \in {g \in new : g[1] = r}}]
          /\ other' = [NotStarted EXCEPT !.pc = "loop", !.created = (new # {})]
    /\ UNCHANGED <<conf, s3, mainVars, modified, fresh, probe>>

\* The record of the second run's loop iteration.
other_rec == conf_ids[other.idx]

\* The first run is inside its iteration of record r.
SameRecordUnderWay(r) ==
    pc \in {"scan", "list", "upload", "delete"} /\ cur = r

OtherReturn ==
    /\ other.pc = "loop"
    /\ other.idx > Len(conf_ids)
    /\ other' = [other EXCEPT !.pc = "returned"]
    /\ UNCHANGED <<envVars, mainVars, modified, fresh, probe>>

OtherSkipDisabled ==
    /\ other.pc = "loop"
    /\ other.idx <= Len(conf_ids)
    /\ ~S3WriteEnabled(other_rec)
    /\ other' = [other EXCEPT !.idx = @ + 1]
    /\ UNCHANGED <<envVars, mainVars, modified, fresh, probe>>

OtherBeginCycle ==
    /\ other.pc = "loop"
    /\ other.idx <= Len(conf_ids)
    /\ S3WriteEnabled(other_rec)
    /\ other' = [other EXCEPT !.pc = "scan",
                              !.s3_folder = Strip(conf[other_rec].s3_folder_name),
                              !.local_files = {},
                              !.up_iter = {},
                              !.del_iter = {},
                              !.overlap = SameRecordUnderWay(other_rec)]
    /\ UNCHANGED <<envVars, mainVars, modified, fresh, probe>>

\* Lines 113-121 in the second run.
OtherScan ==
    /\ other.pc = "scan"
    /\ \E exc \in ListdirOutcomes :
          other' =
            IF exc = OK
            THEN [other EXCEPT !.pc = "list",
                               !.local_files = LocalFiles(localDir[other_rec],
                                                          SubDirs(other_rec))]
            ELSE IF ScanCaught(exc)
            THEN [other EXCEPT !.pc = "loop", !.idx = @ + 1, !.ok = FALSE]
            ELSE [other EXCEPT !.pc = "raised", !.ok = FALSE]
    /\ UNCHANGED <<envVars, mainVars, modified, fresh, probe>>

\* Lines 123-138 in the second run.
OtherList ==
    /\ other.pc = "list"
    /\ \E c \in ClientOutcomes, l \in ListOutcomes :
          LET exc    == IF c # OK THEN c ELSE l
              remote == S3Files(list_s3_objects(s3, other.s3_folder))
          IN  other' =
                IF exc = OK
                THEN [other EXCEPT
                        !.pc = "upload",
                        !.up_iter = FilesToUpload(other.local_files, remote),
                        !.del_iter = FilesToDelete(other.local_files, remote)]
                ELSE IF ListCaught(exc)
                THEN [other EXCEPT !.pc = "loop", !.idx = @ + 1, !.ok = FALSE]
                ELSE [other EXCEPT !.pc = "raised", !.ok = FALSE]
    /\ UNCHANGED <<envVars, mainVars, modified, fresh, probe>>

\* Lines 140-154 in the second run.
OtherUpload ==
    /\ other.pc = "upload"
    /\ \E file_name \in other.up_iter, reason \in UploadReasons :
          LET s3_key == S3Key(other.s3_folder, file_name)
              exc    == upload_to_s3(UploadFileRaises(reason))
          IN  /\ s3' = IF exc = OK THEN s3 \cup {s3_key} ELSE s3
              /\ fresh' = IF exc = OK
                          THEN Stored(fresh, other_rec, file_name, s3_key)
                          ELSE fresh
              /\ other' =
                    IF exc = OK
                    THEN [other EXCEPT !.up_iter = @ \ {file_name}]
                    ELSE IF UploadCaught(exc)
                    THEN [other EXCEPT !.up_iter = @ \ {file_name},
                                       !.ok = FALSE]
                    ELSE [other EXCEPT !.pc = "raised", !.ok = FALSE]
    /\ UNCHANGED <<conf, localDir, mainVars, modified, probe>>

OtherUploadsDone ==
    /\ other.pc = "upload"
    /\ other.up_iter = {}
    /\ other' = [other EXCEPT !.pc = "delete"]
    /\ UNCHANGED <<envVars, mainVars, modified, fresh, probe>>

\* Lines 157-163 in the second run.
OtherDelete ==
    /\ other.pc = "delete"
    /\ \E file_name \in other.del_iter, reason \in DeleteReasons :
          LET s3_key == S3Key(other.s3_folder, file_name)
              exc    == DeleteObjectRaises(reason)
          IN  /\ s3' = IF exc = OK THEN s3 \ {s3_key} ELSE s3
              /\ fresh' = IF exc = OK THEN fresh \ {s3_key} ELSE fresh
              /\ other' =
                    IF exc = OK
                    THEN [other EXCEPT !.del_iter = @ \ {file_name}]
                    ELSE IF DeleteCaught(exc)
                    THEN [other EXCEPT !.del_iter = @ \ {file_name},
                                       !.ok = FALSE]
                    ELSE [other EXCEPT !.pc = "raised", !.ok = FALSE]
    /\ UNCHANGED <<conf, localDir, mainVars, modified, probe>>

OtherDeletesDone ==
    /\ other.pc = "delete"
    /\ other.del_iter = {}
    /\ other' = [other EXCEPT !.pc = "loop", !.idx = @ + 1,
                              !.local_files = {}]
    /\ UNCHANGED <<envVars, mainVars, modified, fresh, probe>>

OtherNext ==
    \/ OtherStartRun
    \/ OtherReturn
    \/ OtherSkipDisabled
    \/ OtherBeginCycle
    \/ OtherScan
    \/ OtherList
    \/ OtherUpload
    \/ OtherUploadsDone
    \/ OtherDelete
    \/ OtherDeletesDone

\* The first record alone is enabled.
InitOverlap == Init /\ conf[1].s3_write /\ ~conf[2].s3_write

\* The scheduler starts the first of the two runs.
FirstRun == runs = 0 /\ StartRun

\* One run and one overlapping run.
NextOverlap ==
    \/ FirstRun
    \/ Return
    \/ SkipDisabled
    \/ BeginCycle
    \/ ScanOk
    \/ ScanFails
    \/ ListOk
    \/ ListFails
    \/ Upload
    \/ UploadsDone
    \/ Delete
    \/ DeletesDone
    \/ OtherNext

SpecOverlap == InitOverlap /\ [][NextOverlap]_vars

\* ------------------------------------------------------------ connection test
\* self.ensure_one(): a recordset of any other size than one raises.
ensure_one(self) == IF Cardinality(self) = 1 THEN OK ELSE "ValueError"

\* A slip: the handler of the test catching the botocore errors only.
ProbeCaught_boto(exc) == IsInstance(exc, "BotoCoreError")

\* Line 84: except Exception.
ProbeCaught(exc) == IsInstance(exc, "Exception")

\* Lines 64-97. The button, or a remote call of the method, on a recordset.
action_test_s3_connection ==
    /\ probe = NotCalled
    /\ \E self \in SUBSET Recs, c \in ClientOutcomes, l \in ListOutcomes :
          LET calls == IF c = OK
                       THEN <<[op |-> "client", res |-> c],
                              [op |-> "list", res |-> l]>>
                       ELSE <<[op |-> "client", res |-> c]>>
              err   == IF c = OK THEN l ELSE c
          IN  probe' =
                IF ensure_one(self) # OK
                THEN [NotCalled EXCEPT !.self = self,
                                       !.raised = ensure_one(self)]
                ELSE IF err = OK
                THEN [NotCalled EXCEPT !.self = self, !.calls = calls,
                                       !.returned = TRUE,
                                       !.title = "Connection Test Succeeded!",
                                       !.message = "Everything seems properly set up!",
                                       !.type = "success"]
                ELSE IF ProbeCaught(err)
                THEN [NotCalled EXCEPT !.self = self, !.calls = calls,
                                       !.returned = TRUE,
                                       !.title = "Connection Test Failed!",
                                       !.message = Str(err),
                                       !.type = "danger"]
                ELSE [NotCalled EXCEPT !.self = self, !.calls = calls,
                                       !.raised = err]
    /\ UNCHANGED <<envVars, mainVars, modified, fresh, other>>

\* The notification is closed.
ProbeDismiss ==
    /\ probe # NotCalled
    /\ probe' = NotCalled
    /\ UNCHANGED <<envVars, mainVars, modified, fresh, other>>

NextProbe == action_test_s3_connection \/ ProbeDismiss

SpecProbe == Init /\ [][NextProbe]_vars

\* ------------------------------------------------------------ file contents
\* Between two runs a backup file that has an object in the bucket is
\* rewritten in place: same name, other content.
ModifyLocal ==
    /\ pc \in {"idle", "returned"}
    /\ \E r \in Recs : \E f \in localDir[r] :
          LET s3_key == S3Key(Strip(conf[r].s3_folder_name), f)
          IN  /\ conf[r].s3_write
              /\ s3_key \in s3
              /\ <<r, f>> \notin modified
              /\ modified' = modified \cup {<<r, f>>}
              /\ fresh' = fresh \ {s3_key}
    /\ UNCHANGED <<envVars, mainVars, probe, other>>

\* The first record alone mirrors its folder.
InitContent == Init /\ conf[1].s3_write /\ ~conf[2].s3_write

NextContent == Next \/ ModifyLocal

SpecContent == InitContent /\ [][NextContent]_vars

\* ------------------------------------------------------------ properties
\* Position of a record in conf_ids.
Pos(r) == CHOOSE i \in 1..Len(conf_ids) : conf_ids[i] = r

\* An iteration has run and is over: the for loop is back at its head, or
\* schedule_backup has returned or raised.
CycleOver == cur # 0 /\ pc \in {"loop", "returned", "raised"}

\* The calls of the current iteration with the given operation.
CallsOf(op) == {i \in 1..Len(trace) : trace[i].op = op}

\* The keys the current iteration has tried to upload / delete.
Attempted(op) == {trace[i].key : i \in CallsOf(op)}

\* The calls of the current iteration that failed.
FailedCalls(op) == {i \in CallsOf(op) : trace[i].res # OK}

\* The keys f"{s3_folder}/{name}" of a set of names.
KeysOf(names) == {S3Key(s3_folder, n) : n \in names}

\* The name of an object under a prefix: its key without the leading
\* "{prefix}/".
NameUnder(key, folder) == SubSeq(key, Len(folder) + 2, Len(key))

\* The names of the objects stored under "{folder}/".
ObjectNames(objects, folder) ==
    {NameUnder(k, folder) : k \in KeysUnder(objects, ListPrefix(folder))}

\* The iteration of cur ran to the end of its delete loop and every call of
\* it succeeded.
CycleFullySuccessful ==
    /\ cur # 0
    /\ status[cur] = "done"
    /\ \A i \in 1..Len(trace) : trace[i].res = OK

\* C1: when an iteration completes with the scan, the listing and every
\* upload and delete succeeding, the object names stored under "{prefix}/"
\* are exactly the regular files of the local folder.
C1_SuccessfulCycleMirrorsFolder ==
    CycleFullySuccessful =>
        ObjectNames(s3, s3_folder) = localDir[cur]

EnabledAfter(r) == {q \in Recs : Pos(q) > Pos(r) /\ conf[q].s3_write}

\* C3: when an upload of the iteration failed, for whatever reason, the
\* failure is logged and by the end of the iteration every other name of
\* files_to_upload and every name of files_to_delete has been tried.
C3_UploadFailureIsolated ==
    (CycleOver /\ FailedCalls("upload") # {}) =>
        /\ \A i \in FailedCalls("upload") :
              Logged(cur, "upload", LastSegment(trace[i].key)) \in log
        /\ Attempted("upload") = KeysOf(files_to_upload)
        /\ Attempted("delete") = KeysOf(files_to_delete)

\* C4: when a delete of the iteration failed, for whatever reason, the
\* failure is logged and by the end of the iteration every other name of
\* files_to_delete has been tried.
C4_DeleteFailureIsolated ==
    (CycleOver /\ FailedCalls("delete") # {}) =>
        /\ \A i \in FailedCalls("delete") :
              Logged(cur, "delete", LastSegment(trace[i].key)) \in log
        /\ Attempted("delete") = KeysOf(files_to_delete)

\* C5: no failure of a record's iteration ends the run: schedule_backup never
\* raises, and when it returns every enabled record has had its iteration.
C5_RunNeverRaises ==
    /\ pc # "raised"
    /\ pc = "returned" =>
          \A r \in Recs : conf[r].s3_write =>
              status[r] \in {"done", "LocalScanFailed", "RemoteListFailed"}

\* C6: when os.listdir of a record fails, its iteration ends there with no
\* remote call (no client, no list, no upload, no delete) and the bucket
\* untouched, the for loop goes on to the next record, and the enabled
\* records after it have had their iteration when the run is over.
C6_ScanFailureSkipsTarget ==
    /\ (cur # 0 /\ FailedCalls("listdir") # {}) =>
          /\ status[cur] = "LocalScanFailed"
          /\ CallsOf("client") \cup CallsOf("list")
                \cup CallsOf("upload") \cup CallsOf("delete") = {}
          /\ s3 = cycleS3
          /\ pc \in {"loop", "returned"}
          /\ idx > Pos(cur)
    /\ \A r \in Recs : (status[r] = "LocalScanFailed" /\ pc = "returned") =>
          \A q \in EnabledAfter(r) : status[q] # "pending"

\* The first record's scan failed and the second was reconciled in the same run.
C6_Witness ==
    /\ pc = "returned"
    /\ status[1] = "LocalScanFailed"
    /\ status[2] = "done"
    /\ cur = 2
    /\ \E i \in CallsOf("upload") : trace[i].res = OK

\* C7: when get_s3_client or the listing of a record fails, its iteration
\* ends there with no upload and no delete and the bucket unchanged, the for
\* loop goes on to the next record, and the enabled records after it have had
\* their iteration when the run is over.
C7_ListFailureSkipsTarget ==
    /\ (cur # 0 /\ FailedCalls("client") \cup FailedCalls("list") # {}) =>
          /\ status[cur] = "RemoteListFailed"
          /\ CallsOf("upload") \cup CallsOf("delete") = {}
          /\ s3 = cycleS3
          /\ pc \in {"loop", "returned"}
          /\ idx > Pos(cur)
    /\ \A r \in Recs : (status[r] = "RemoteListFailed" /\ pc = "returned") =>
          \A q \in EnabledAfter(r) : status[q] # "pending"

\* The first record's listing failed with files to upload waiting, and the
\* second record was reconciled in the same run.
C7_Witness ==
    /\ pc = "returned"
    /\ status[1] = "RemoteListFailed"
    /\ localDir[1] # {}
    /\ KeysUnder(s3, <<"p", "/">>) = {}
    /\ status[2] = "done"
    /\ cur = 2
    /\ \E i \in CallsOf("upload") : trace[i].res = OK

\* C8: in the run after one in which uploads or deletes failed, with nothing
\* else changing the folder or the bucket, every file that failed is again
\* in the differences; and when every call of that run succeeds, the object
\* names under each enabled record's prefix equal its local files at the end.
C8_FailedFilesRetriedUntilMirrored ==
    (prev.ran /\ ~created) =>
        /\ (cur # 0 /\ status[cur] \in {"upload", "delete", "done"}) =>
              \A f \in prev.failed : f[1] = cur =>
                  /\ f[2] = "upload" => f[3] \in files_to_upload
                  /\ f[2] = "delete" => f[3] \in files_to_delete
        /\ (prev.failed # {} /\ RunClean) =>
              \A r \in Recs : conf[r].s3_write =>
                  ObjectNames(s3, Strip(conf[r].s3_folder_name)) = localDir[r]

\* C9: a run that follows a run in which nothing failed, with no new file in
\* between, attempts no upload and no delete.
C9_SecondRunIsNoOp ==
    (prev.ran /\ prev.clean /\ ~created) => ~touched

\* C10: a successful listing returns every object of the bucket whose key
\* starts with "{prefix}/", however many there are, and the empty sequence
\* when there is none.
C10_ListingIsComplete ==
    (cur # 0 /\ status[cur] \in {"upload", "delete", "done"}) =>
        /\ {s3_objects[i].Key : i \in 1..Len(s3_objects)}
              = KeysUnder(cycleS3, ListPrefix(s3_folder))
        /\ KeysUnder(cycleS3, ListPrefix(s3_folder)) = {} => s3_objects = <<>>

\* C11: a record whose s3_write is false gets no iteration: no scan and no
\* remote call is made for it, and it is at most marked as skipped.
C11_DisabledTargetUntouched ==
    \A r \in Recs : ~conf[r].s3_write =>
        /\ status[r] \in {"pending", "skipped"}
        /\ cur # r
        /\ \A i \in 1..Len(trace) : trace[i].rec # r
        /\ (pc \in {"scan", "list", "upload", "delete"}) => rec # r

\* The first record is disabled and skipped while the second is reconciled.
C11_Witness ==
    /\ pc = "returned"
    /\ ~conf[1].s3_write
    /\ status[1] = "skipped"
    /\ status[2] = "done"
    /\ \E i \in CallsOf("upload") : trace[i].rec = 2

\* p is raw without its leading and trailing blanks.
Trimmed(p, raw) ==
    \E i, j \in 0..Len(raw) :
        /\ i + Len(p) + j = Len(raw)
        /\ SubSeq(raw, i + 1, i + Len(p)) = p
        /\ \A k \in 1..i : raw[k] = SPACE
        /\ \A k \in (Len(raw) - j + 1)..Len(raw) : raw[k] = SPACE
        /\ p # <<>> => (p[1] # SPACE /\ p[Len(p)] # SPACE)

\* A base-name: no path separator in it.
IsBaseName(name) == \A k \in 1..Len(name) : name[k] # SLASH

\* Every key the iteration has passed to upload or delete is the trimmed
\* folder name, a '/', and a base-name.
C12_KeysWellFormed ==
    \A i \in CallsOf("upload") \cup CallsOf("delete") :
        LET key  == trace[i].key
            name == SubSeq(key, Len(s3_folder) + 2, Len(key))
        IN  /\ Trimmed(s3_folder, conf[cur].s3_folder_name)
            /\ key = s3_folder \o <<"/">> \o name
            /\ IsBaseName(name)

\* A step of an iteration adds or removes only objects under the record's
\* prefix and leaves the folders and the configuration as they are.
C12_CycleFrame ==
    (pc \in {"loop", "scan", "list", "upload", "delete"}) =>
        /\ conf' = conf
        /\ localDir' = localDir
        /\ \A k \in (s3' \ s3) \cup (s3 \ s3') :
              /\ cur # 0
              /\ Trimmed(s3_folder, conf[cur].s3_folder_name)
              /\ StartsWith(k, s3_folder \o <<"/">>)

\* C12: every key uploaded or deleted is "{prefix}/{name}" with prefix the
\* record's folder name without surrounding blanks and name a base-name; an
\* iteration changes no object outside that prefix, no local file and no
\* configuration field.
C12_KeysUnderPrefixOnly ==
    [](C12_KeysWellFormed) /\ [][C12_CycleFrame]_vars

\* The first record, whose stored folder name has blanks around it, has
\* uploaded one object and deleted another.
C12_Witness ==
    /\ cur = 1
    /\ conf[1].s3_folder_name # s3_folder
    /\ \E i \in CallsOf("upload") : trace[i].res = OK /\ trace[i].key \in s3
    /\ \E i \in CallsOf("delete") : trace[i].res = OK /\ trace[i].key \notin s3

\* The keys of the listing the current iteration holds.
ListedKeys == {s3_objects[i].Key : i \in 1..Len(s3_objects)}

\* C15: once the iteration has its listing, the remote names are the listed
\* keys without the leading "{prefix}/", two different listed keys never
\* give the same name, and every name to delete leads back through
\* "{prefix}/{name}" to a listed key.
C15_NamesAreKeySuffixes ==
    (cur # 0 /\ status[cur] \in {"upload", "delete", "done"}) =>
        /\ s3_files = {NameUnder(k, s3_folder) : k \in ListedKeys}
        /\ \A k1, k2 \in ListedKeys :
              k1 # k2 => \A n1, n2 \in s3_files :
                  (S3Key(s3_folder, n1) = k1 /\ S3Key(s3_folder, n2) = k2)
                      => n1 # n2
        /\ Cardinality(s3_files) = Cardinality(ListedKeys)
        /\ \A n \in files_to_delete : S3Key(s3_folder, n) \in ListedKeys

\* The place of a call in the order of the loop body.
StepRank(op) ==
    CASE op = "listdir" -> 1
      [] op = "client"  -> 2
      [] op = "list"    -> 3
      [] op = "upload"  -> 4
      [] op = "delete"  -> 5

\* C16: the calls of an iteration come in the order scan, connect, list,
\* uploads, deletes; an upload or delete comes only after a scan and a
\* listing that succeeded; a delete comes only after every file to upload
\* has been tried; and no record later in the loop is touched while the
\* iteration of the current one is under way.
C16_StepsInOrder ==
    /\ \A i, j \in 1..Len(trace) :
          i < j => StepRank(trace[i].op) <= StepRank(trace[j].op)
    /\ Cardinality(CallsOf("listdir")) <= 1
    /\ Cardinality(CallsOf("list")) <= 1
    /\ \A i \in CallsOf("upload") \cup CallsOf("delete") :
          /\ \E s \in CallsOf("listdir") : s < i /\ trace[s].res = OK
          /\ \E c \in CallsOf("client") : c < i /\ trace[c].res = OK
          /\ \E l \in CallsOf("list") : l < i /\ trace[l].res = OK
    /\ CallsOf("delete") # {} => Attempted("upload") = KeysOf(files_to_upload)
    /\ \A i \in 1..Len(trace) : trace[i].rec = cur
    /\ \A r \in Recs :
          /\ status[r] \in {"scan", "list", "upload", "delete"} =>
                (r = cur /\ idx = Pos(r) /\ pc = status[r])
          /\ (pc \in {"scan", "list", "upload", "delete"} /\ Pos(r) > idx) =>
                status[r] = "pending"

\* The first record has tried two uploads and then a delete while the second,
\* enabled, still waits for its turn.
C16_Witness ==
    /\ pc = "delete"
    /\ cur = 1
    /\ Cardinality(CallsOf("upload")) >= 2
    /\ CallsOf("delete") # {}
    /\ conf[2].s3_write
    /\ status[2] = "pending"

\* C17: a name that is both in the folder and in the listing is neither
\* uploaded nor deleted by the iteration, and a file rewritten in place while
\* it has an object in the bucket keeps that object, with the content it had,
\* through every later run.
C17_RewrittenFileStaysStale ==
    /\ (cur # 0 /\ status[cur] \in {"upload", "delete", "done"}) =>
          \A f \in local_files \cap s3_files :
              S3Key(s3_folder, f) \notin Attempted("upload") \cup Attempted("delete")
    /\ \A m \in modified :
          LET s3_key == S3Key(Strip(conf[m[1]].s3_folder_name), m[2])
          IN  s3_key \in s3 /\ s3_key \notin fresh

\* The test has ended, by a return or by an exception.
ProbeEnded == probe.returned \/ probe.raised # "none"

\* What the calls of an ended test look like and what it answered: one
\* connect, one list call after a connect that succeeded, danger with the
\* text of the error when a call failed and success otherwise.
ProbeAnswer ==
    LET n      == Len(probe.calls)
        errors == {i \in 1..n : probe.calls[i].res # OK}
    IN  /\ n >= 1
        /\ probe.calls[1].op = "client"
        /\ \A i \in 2..n : probe.calls[i].op = "list"
        /\ n = (IF probe.calls[1].res = OK THEN 2 ELSE 1)
        /\ probe.returned
        /\ probe.raised = "none"
        /\ errors = {} => probe.type = "success"
        /\ \A i \in errors :
              /\ probe.type = "danger"
              /\ probe.message \in
                    {"An unspecified error occurred",
                     "An error occurred (AccessDenied) when calling the ListObjectsV2 operation: Access Denied"}
              /\ probe.message # probe.calls[i].res
              /\ (probe.message = "An unspecified error occurred")
                    <=> (probe.calls[i].res = "BotoCoreError")

\* The statement as written: whatever it is called on, the test makes its
\* connect and list call, answers with a notification and never raises.
C14_ProbeNeverRaises == ProbeEnded => ProbeAnswer

\* A step of the test writes no configuration, no folder and no object.
ProbeFrame ==
    (probe' # probe) =>
        (conf' = conf /\ localDir' = localDir /\ s3' = s3 /\ fresh' = fresh)

\* C14: called on exactly one record, the test makes one connect and, when
\* that succeeded, one list call, answers danger with the text of the error
\* when either raised and success otherwise, never raises, and writes no
\* configuration, folder or object.
C14_ProbeOnOneRecord ==
    /\ [](ProbeEnded /\ Cardinality(probe.self) = 1 => ProbeAnswer)
    /\ [][ProbeFrame]_vars

\* The test on the first record: the connect succeeded, the list call was
\* refused, and the answer is a danger notification.
C14_Witness ==
    /\ probe.self = {1}
    /\ probe.returned
    /\ Len(probe.calls) = 2
    /\ probe.calls[2].res = "ClientError"
    /\ probe.type = "danger"

\* C13: when two overlapping runs have both gone through the first record's
\* iteration, with no file written to the folder meanwhile and every step of
\* both succeeding, neither has failed and the object names under the prefix
\* are the files of the folder.
C13_OverlappingCyclesConverge ==
    (/\ pc \in {"returned", "raised"}
     /\ other.pc \in {"returned", "raised"}
     /\ other.overlap
     /\ runOK /\ other.ok
     /\ ~created /\ ~other.created
     /\ conf[1].s3_write) =>
        /\ pc = "returned" /\ status[1] = "done"
        /\ other.pc = "returned"
        /\ ObjectNames(s3, Strip(conf[1].s3_folder_name)) = localDir[1]

\* A step removes no object of a record's prefix whose name is a file of the
\* record's folder.
DeletesNoLocalFile ==
    \A r \in Recs : \A k \in s3 \ s3' :
        LET folder == Strip(conf[r].s3_folder_name)
        IN  StartsWith(k, ListPrefix(folder)) =>
                NameUnder(k, folder) \notin localDir[r]

\* C18: no step of a run, alone or overlapping with a second run that has
\* written and uploaded a new backup file, deletes an object whose file is in
\* the local folder at that moment.
C18_NeverDeletesLocalFile == [][DeletesNoLocalFile]_vars

====
